---- MODULE Spec2Model ----
(***************************************************************************)
(* Session lifecycle, device-log capture and signal-driven shutdown of the *)
(* appium-mcp server (server.js, tools/startSession.js,                    *)
(* tools/getDeviceLogs.js, tools/enterTextTool.js,                         *)
(* tools/simulateGesture.js).                                              *)
(*                                                                         *)
(* One action is one synchronous segment of a handler: from its entry, or  *)
(* from the settling of the promise it awaits, to its next await or its    *)
(* return.  What the host, the automation engine and the file system       *)
(* answer is chosen with \E from small sets.                               *)
(*                                                                         *)
(* JavaScript null and undefined are both the absent value here: 0 for a   *)
(* handle, "null" for a platform tag, <<>> for an optional record or       *)
(* string.  Strings the code inspects are tuples of one-character strings. *)
(***************************************************************************)
EXTENDS Naturals, Sequences, FiniteSets

\* ------------------------------------------------------------------ bounds
MaxSessions == 2   \* remote sessions the automation engine opens in one run
MaxWrites == 1     \* distinct log lines the subprocesses write in one run
MaxSinkLen == 2    \* chunks a sink file holds at most
MaxSignals == 2    \* SIGINT/SIGTERM deliveries in one run
MaxCalls == 2      \* start_session invocations that may be in flight at once
MaxLateCalls == 0  \* tool calls the client still sends after signalling the server
MaxTailLen == 4    \* characters in the middle part of a runtime string to parse

\* ------------------------------------------------------------ plain values
NULL == 0          \* an absent handle (appiumDriver, deviceLogProcess)
NoPlatform == "null"
None == <<>>       \* an absent optional value; Some(x) is <<x>>
Some(x) == <<x>>

Digits == {"0", "1", "2", "3", "4", "5", "6", "7", "8", "9"}

Unknown == <<"U", "n", "k", "n", "o", "w", "n">>

\* ------------------------------------------------- server.js: parseIOSVersion
RECURSIVE DigitRunLen(_, _)
\* Length of the longest run of digits of s starting at position i (\d+).
DigitRunLen(s, i) ==
    IF i <= Len(s) /\ s[i] \in Digits THEN 1 + DigitRunLen(s, i + 1) ELSE 0

HasPrefixAt(s, i, p) ==
    /\ i + Len(p) - 1 <= Len(s)
    /\ \A k \in 1..Len(p) : s[i + k - 1] = p[k]

\* /<prefix>(\d+)<sep>(\d+)/ matches s at position i.
MatchTwoAt(s, i, prefix, sep) ==
    LET a  == i + Len(prefix)
        n1 == DigitRunLen(s, a)
        b  == a + n1
        n2 == DigitRunLen(s, b + 1)
    IN  /\ HasPrefixAt(s, i, prefix)
        /\ n1 > 0
        /\ b <= Len(s)
        /\ s[b] = sep
        /\ n2 > 0

\* `${match[1]}.${match[2]}` of the leftmost match of /<prefix>(\d+)<sep>(\d+)/.
TwoGroups(s, prefix, sep) ==
    LET hits == {i \in 1..Len(s) : MatchTwoAt(s, i, prefix, sep)}
    IN  IF hits = {} THEN None
        ELSE LET i  == CHOOSE j \in hits : \A k \in hits : j <= k
                 a  == i + Len(prefix)
                 n1 == DigitRunLen(s, a)
                 c  == a + n1 + 1
                 n2 == DigitRunLen(s, c)
             IN  Some(SubSeq(s, a, a + n1 - 1) \o <<".">> \o SubSeq(s, c, c + n2 - 1))

\* match[1] of the leftmost match of /<prefix>(\d+)/.
OneGroup(s, prefix) ==
    LET hits == {i \in 1..Len(s) :
                    HasPrefixAt(s, i, prefix) /\ DigitRunLen(s, i + Len(prefix)) > 0}
    IN  IF hits = {} THEN None
        ELSE LET i == CHOOSE j \in hits : \A k \in hits : j <= k
                 a == i + Len(prefix)
             IN  Some(SubSeq(s, a, a + DigitRunLen(s, a) - 1))

\* Lines 53-64 without the fallback of lines 60-61.
parseIOSVersion_NoMajorOnly(runtimeString) ==
    IF runtimeString = <<>> THEN None
    ELSE LET dash  == TwoGroups(runtimeString, <<"i", "O", "S", "-">>, "-")
             space == TwoGroups(runtimeString, <<"i", "O", "S", " ">>, ".")
         IN  IF dash # None THEN dash ELSE space
\* null is None; a version string v is Some(v).
parseIOSVersion(runtimeString) ==
    IF runtimeString = <<>> THEN None
    ELSE LET dash  == TwoGroups(runtimeString, <<"i", "O", "S", "-">>, "-")
             space == TwoGroups(runtimeString, <<"i", "O", "S", " ">>, ".")
             match == IF dash # None THEN dash ELSE space
         IN  IF match # None THEN match
             ELSE OneGroup(runtimeString, <<"i", "O", "S", "-">>)

\* ------------------------------------------- server.js: the dependency bag
\* toolDependencies as server.js builds it: detectAndroidDevices,
\* parseAndroidVersion and androidLogFilePath are not among its keys, so the
\* handler of start_session destructures them to undefined.
deviceLogFilePath == "device_console.log"
androidLogFilePath == "undefined"

\* ------------------------------------------------ what the host can answer
\* Entries of `xcrun simctl list devices booted -j`, flattened in the order
\* the handler walks them (runtime key by runtime key).
Sim1 == [udid |-> "U1", name |-> <<"A", "1">>, state |-> "Booted",
         runtimeKey |-> <<"i", "O", "S", "-", "1", "7", "-", "2">>]
Sim2 == [udid |-> "U2", name |-> <<"A", "2">>, state |-> "Booted",
         runtimeKey |-> <<"t", "v", "O", "S", "-", "1", "7">>]
Sim3 == [udid |-> "U3", name |-> <<"B">>, state |-> "Shutdown",
         runtimeKey |-> <<"i", "O", "S", "-", "1", "8">>]

\* ok = FALSE: execAsync rejected or JSON.parse threw.
ExecOutputs ==
    { [ok |-> FALSE, devices |-> <<>>],
      [ok |-> TRUE,  devices |-> <<>>],
      [ok |-> TRUE,  devices |-> <<Sim3>>],
      [ok |-> TRUE,  devices |-> <<Sim1>>],
      [ok |-> TRUE,  devices |-> <<Sim3, Sim2, Sim1>>] }

\* Runtime strings: a head, a middle part over the characters the patterns of
\* parseIOSVersion look at, and an end that may hold a second version.
RuntimeHeads == { <<>>, <<"i", "O", "S">>, <<"x", "i", "O", "S">>, <<"O", "S">> }
RuntimeChars == {"-", " ", ".", "1", "7"}
RuntimeEnds == { <<>>, <<"i", "O", "S", "-", "2", "-", "3">> }
RuntimeStrings ==
    { h \o m \o e : h \in RuntimeHeads,
                    m \in UNION {[1..n -> RuntimeChars] : n \in 0..MaxTailLen},
                    e \in RuntimeEnds }

\* What a detectAndroidDevices passed in the dependencies resolves with, once
\* lines 119-122 have tagged each entry with platform 'android'.
Emu1 == [platform |-> "android", id |-> "emulator-5554", name |-> <<"P", "2">>,
         version |-> <<"1", "4">>, type |-> "emulator"]
Emu2 == [platform |-> "android", id |-> "R58M", name |-> <<"P">>,
         version |-> <<"1", "3">>, type |-> "device"]
AndroidLists == { <<>>, <<Emu1>>, <<Emu2, Emu1>> }

Platforms == {"auto", "ios", "android"}
\* deviceName: absent (or empty, equally falsy) or a filter string.
DeviceNames == { <<>>, <<"A">>, <<"2">>, <<"Z">> }

\* -------------------------------------------------------------------- state
VARIABLES
    sharedState,   \* server.js sharedState, with the fields start_session adds
    calls,         \* start_session invocations: position, arguments, locals
    sessions,      \* the automation engine's sessions opened by remote()
    procs,         \* the log-capture subprocesses spawned by start_session
    files,         \* the sink files on disk
    es,            \* the end_session invocation: where it is suspended
    gdl,           \* the get_device_logs invocation: where it is suspended, locals
    tl,            \* the enter_text, simulate_gesture or press_home_button
                   \* invocation: the driver method it awaits, on which handle
    drain,         \* history: the last get_device_logs calls with no write between
    result,        \* what the tool call that returned last returned
    handlers,      \* the invocations of the SIGINT and SIGTERM listeners
    nextChunk,     \* the next log line a subprocess writes
    lateCalls,     \* tool calls dispatched after a signal was delivered
    exited,        \* process.exit() has been called
    applied        \* the pure function applied last, its arguments and its value

vars == <<sharedState, calls, sessions, procs, files, es, gdl, tl, drain, result,
          handlers, nextChunk, lateCalls, exited, applied>>

\* No pure function has been applied.
NoApplication == [fn |-> "none"]

\* No simple tool call is in flight.
IdleTool == [pc |-> "idle", driver |-> NULL]

\* No pair of get_device_logs calls is being followed.
NoDrain == [stage |-> "none", before |-> <<>>, kind |-> "none", logs |-> <<>>,
            after |-> <<>>, fault |-> FALSE]

SessionIds == 1..MaxSessions
\* The subprocess spawned by the call that opened session s is subprocess s.
ProcIds == SessionIds
Calls == 1..MaxCalls
Paths == {deviceLogFilePath}

IdleCall == [pc |-> "idle", platform |-> "auto", deviceName |-> <<>>,
             selectedDevice |-> None, session |-> NULL]

\* The content a handler returned, [{type: "text", text: ...}], as the kind of
\* message and the value interpolated into it; logs is the text of the device
\* logs when that is what was returned; session and proc are the session the
\* invocation opened and the subprocess it spawned, if any. shape tells how the
\* invocation completed: "text" is a returned list of items tagged as text.
Outcome(tool, kind, about) ==
    [tool |-> tool, kind |-> kind, about |-> about, logs |-> <<>>,
     session |-> NULL, proc |-> NULL, shape |-> "text"]

\* The handler completed by throwing: its promise is rejected.
Thrown(tool, kind) == [Outcome(tool, kind, <<>>) EXCEPT !.shape = "thrown"]

\* The handler returned a string, not a list of content items.
BareString(tool, kind) == [Outcome(tool, kind, <<>>) EXCEPT !.shape = "string"]

NoOutcome == Outcome("none", "none", <<>>)

NoSession == [state |-> "none", deletes |-> 0]
NoProc == [state |-> "none", kills |-> 0, piped |-> FALSE, path |-> "undefined"]

\* The session the next successful remote() opens.
NextSession == 1 + Cardinality({s \in SessionIds : sessions[s].state # "none"})

\* The event loop can run a callback: the process has not exited, and the
\* response to the tool call that returned last has been sent (the dispatcher's
\* continuation is a microtask: it runs before any other callback).
Running == ~exited /\ result.tool = "none"

\* ------------------------------------------------ startSession.js: detection
\* Lines 93-107: the booted entries become device descriptors.
MkIOSDevice(raw) ==
    LET iosVersion == parseIOSVersion(raw.runtimeKey)
    IN  [platform |-> "ios", id |-> raw.udid, name |-> raw.name,
         version |-> IF iosVersion # None THEN iosVersion[1] ELSE Unknown,
         type |-> "simulator"]

IsBooted(raw) == raw.state = "Booted"

RECURSIVE MapIOS(_)
MapIOS(raws) ==
    IF raws = <<>> THEN <<>> ELSE <<MkIOSDevice(Head(raws))>> \o MapIOS(Tail(raws))

\* Lines 84-112: a failed exec or parse leaves iosDevices empty.
IOSDevicesOf(out) == IF out.ok THEN MapIOS(SelectSeq(out.devices, IsBooted)) ELSE <<>>

\* ------------------------------------------------ startSession.js: selection
\* String.prototype.includes.
Includes(name, part) ==
    \E i \in 1..(Len(name) + 1) : HasPrefixAt(name, i, part)

ErrorOf(kind, about) == [device |-> None, outcome |-> Outcome("start_session", kind, about)]

\* Lines 129-165 with the test of line 160 made on androidDevices.
SelectDevice_AndroidFirst(platform, deviceName, iosDevices, androidDevices) ==
    LET allDevices == iosDevices \o androidDevices
        OnPlatform(d) == d.platform = platform
        targetDevices == IF platform # "auto" THEN SelectSeq(allDevices, OnPlatform)
                         ELSE allDevices
        hits == {i \in 1..Len(targetDevices) : Includes(targetDevices[i].name, deviceName)}
    IN  IF Len(allDevices) = 0
        THEN ErrorOf("no_devices", IF platform = "auto" THEN <<"iOS or Android">>
                                   ELSE <<platform>>)
        ELSE IF deviceName # <<>>
        THEN IF hits = {} THEN ErrorOf("device_not_found", deviceName)
             ELSE [device |-> Some(targetDevices[CHOOSE i \in hits : \A j \in hits : i <= j]),
                   outcome |-> NoOutcome]
        ELSE IF platform = "ios"
        THEN IF Len(iosDevices) = 0 THEN ErrorOf("no_ios", <<"iOS">>)
             ELSE [device |-> Some(iosDevices[1]), outcome |-> NoOutcome]
        ELSE IF platform = "android"
        THEN IF Len(androidDevices) = 0 THEN ErrorOf("no_android", <<"Android">>)
             ELSE [device |-> Some(androidDevices[1]), outcome |-> NoOutcome]
        ELSE [device |-> Some(IF Len(androidDevices) > 0 THEN androidDevices[1]
                              ELSE iosDevices[1]),
              outcome |-> NoOutcome]

\* Lines 129-165 with the find of line 144 taking the last match.
SelectDevice_LastMatch(platform, deviceName, iosDevices, androidDevices) ==
    LET allDevices == iosDevices \o androidDevices
        OnPlatform(d) == d.platform = platform
        targetDevices == IF platform # "auto" THEN SelectSeq(allDevices, OnPlatform)
                         ELSE allDevices
        hits == {i \in 1..Len(targetDevices) : Includes(targetDevices[i].name, deviceName)}
    IN  IF Len(allDevices) = 0
        THEN ErrorOf("no_devices", IF platform = "auto" THEN <<"iOS or Android">>
                                   ELSE <<platform>>)
        ELSE IF deviceName # <<>>
        THEN IF hits = {} THEN ErrorOf("device_not_found", deviceName)
             ELSE [device |-> Some(targetDevices[CHOOSE i \in hits : \A j \in hits : i >= j]),
                   outcome |-> NoOutcome]
        ELSE IF platform = "ios"
        THEN IF Len(iosDevices) = 0 THEN ErrorOf("no_ios", <<"iOS">>)
             ELSE [device |-> Some(iosDevices[1]), outcome |-> NoOutcome]
        ELSE IF platform = "android"
        THEN IF Len(androidDevices) = 0 THEN ErrorOf("no_android", <<"Android">>)
             ELSE [device |-> Some(androidDevices[1]), outcome |-> NoOutcome]
        ELSE [device |-> Some(IF Len(iosDevices) > 0 THEN iosDevices[1]
                              ELSE androidDevices[1]),
              outcome |-> NoOutcome]

\* Lines 129-165: the device to connect to, or the error returned early.
SelectDevice(platform, deviceName, iosDevices, androidDevices) ==
    LET allDevices == iosDevices \o androidDevices
        OnPlatform(d) == d.platform = platform
        targetDevices == IF platform # "auto" THEN SelectSeq(allDevices, OnPlatform)
                         ELSE allDevices
        hits == {i \in 1..Len(targetDevices) : Includes(targetDevices[i].name, deviceName)}
    IN  IF Len(allDevices) = 0
        THEN ErrorOf("no_devices", IF platform = "auto" THEN <<"iOS or Android">>
                                   ELSE <<platform>>)
        ELSE IF deviceName # <<>>
        THEN IF hits = {} THEN ErrorOf("device_not_found", deviceName)
             ELSE [device |-> Some(targetDevices[CHOOSE i \in hits : \A j \in hits : i <= j]),
                   outcome |-> NoOutcome]
        ELSE IF platform = "ios"
        THEN IF Len(iosDevices) = 0 THEN ErrorOf("no_ios", <<"iOS">>)
             ELSE [device |-> Some(iosDevices[1]), outcome |-> NoOutcome]
        ELSE IF platform = "android"
        THEN IF Len(androidDevices) = 0 THEN ErrorOf("no_android", <<"Android">>)
             ELSE [device |-> Some(androidDevices[1]), outcome |-> NoOutcome]
        ELSE [device |-> Some(IF Len(iosDevices) > 0 THEN iosDevices[1]
                              ELSE androidDevices[1]),
              outcome |-> NoOutcome]

\* Lines 169-195: the capabilities sent to the automation engine; the platform
\* version is set when selectedDevice.version is truthy (a non-empty string).
finalCapabilities(selectedDevice) ==
    [platformName |-> IF selectedDevice.platform = "ios" THEN "iOS" ELSE "Android",
     automationName |-> IF selectedDevice.platform = "ios" THEN "XCUITest"
                        ELSE "UiAutomator2",
     udid |-> selectedDevice.id,
     deviceName |-> selectedDevice.name,
     newCommandTimeout |-> 600,
     platformVersion |-> IF selectedDevice.version # <<>>
                         THEN Some(selectedDevice.version) ELSE None]

\* Lines 115-209, entered with iosDevices settled: detectAndroidDevices is not a
\* function, so calling it throws inside the try and androidDevices stays empty;
\* then the selection: the device to connect to, or the error returned early.
AfterIOSDetection(platform, deviceName, iosDevices) ==
    LET androidDevices == <<>>
    IN  SelectDevice(platform, deviceName, iosDevices, androidDevices)

\* The invocation goes on to call remote() with the selected device, or returns.
Proceed(c, sel) ==
    IF sel.device = None
    THEN /\ calls' = [calls EXCEPT ![c] = IdleCall]
         /\ result' = sel.outcome
    ELSE /\ calls' = [calls EXCEPT ![c] = [IdleCall EXCEPT !.pc = "remote",
                                                         !.selectedDevice = sel.device]]
         /\ UNCHANGED result

\* ------------------------------------------------- startSession.js: handler
\* Line 69.
StartGuardActive_Absent == FALSE
StartGuardActive == sharedState.appiumDriver # NULL

\* Serialized dispatch: a tool call is accepted when no other is in flight.
NoCallInFlight ==
    /\ \A c \in Calls : calls[c].pc = "idle"
    /\ es.pc = "idle"
    /\ gdl.pc = "idle"
    /\ tl.pc = "idle"

\* A tool call arrives: the process runs, no other call is in flight, and the
\* client has not signalled the server (or still sends one of its late calls).
Dispatch ==
    /\ Running
    /\ NoCallInFlight
    /\ IF handlers = <<>> THEN lateCalls' = lateCalls
       ELSE lateCalls < MaxLateCalls /\ lateCalls' = lateCalls + 1

\* Lines 68-86: entry of the handler up to its first await.
StartDispatch(c) ==
    /\ Dispatch
    /\ calls[c].pc = "idle"
    /\ \A k \in Calls : calls[k].pc = "idle" => c <= k    \* the lowest free slot
    /\ \E platform \in Platforms, deviceName \in DeviceNames :
         IF StartGuardActive
         THEN /\ result' = Outcome("start_session", "already_active", <<>>)
              /\ UNCHANGED calls
         ELSE IF platform \in {"auto", "ios"}
         THEN /\ calls' = [calls EXCEPT ![c] = [IdleCall EXCEPT !.pc = "execAsync",
                                !.platform = platform, !.deviceName = deviceName]]
              /\ UNCHANGED result
         ELSE Proceed(c, AfterIOSDetection(platform, deviceName, <<>>))
    /\ UNCHANGED <<sharedState, sessions, procs, files, es, gdl, handlers, nextChunk,
                   exited, tl, drain, applied>>

\* Lines 68-86 entered while an earlier start_session call is suspended in
\* device detection or in remote(): the dispatcher awaits no handler before it
\* accepts the next request, and the guard of line 69 is all that is tested.
StartOverlapping(c) ==
    /\ Running
    /\ handlers = <<>>
    /\ es.pc = "idle" /\ gdl.pc = "idle" /\ tl.pc = "idle"
    /\ \E k \in Calls : calls[k].pc \in {"execAsync", "remote"}
    /\ calls[c].pc = "idle"
    /\ \A k \in Calls : calls[k].pc = "idle" => c <= k    \* the lowest free slot
    /\ \E platform \in Platforms, deviceName \in DeviceNames :
         IF StartGuardActive
         THEN /\ result' = Outcome("start_session", "already_active", <<>>)
              /\ UNCHANGED calls
         ELSE IF platform \in {"auto", "ios"}
         THEN /\ calls' = [calls EXCEPT ![c] = [IdleCall EXCEPT !.pc = "execAsync",
                                !.platform = platform, !.deviceName = deviceName]]
              /\ UNCHANGED result
         ELSE Proceed(c, AfterIOSDetection(platform, deviceName, <<>>))
    /\ UNCHANGED <<sharedState, sessions, procs, files, es, gdl, handlers, nextChunk,
                   lateCalls, exited, tl, drain, applied>>

\* Lines 86-209: execAsync settles; on to the call of remote() or an early return.
StartExecSettled(c) ==
    /\ Running
    /\ calls[c].pc = "execAsync"
    /\ \E out \in ExecOutputs :
         Proceed(c, AfterIOSDetection(calls[c].platform, calls[c].deviceName,
                                      IOSDevicesOf(out)))
    /\ UNCHANGED <<sharedState, sessions, procs, files, es, gdl, handlers, nextChunk,
                   lateCalls, exited, tl, drain, applied>>

\* Lines 302-308: the catch block of the handler.
CatchBlock_KeepsDriver(ss) == [ss EXCEPT !.currentPlatform = NoPlatform, !.currentDevice = None]
CatchBlock_KeepsPlatform(ss) == [ss EXCEPT !.appiumDriver = NULL, !.currentDevice = None]
CatchBlock(ss) ==
    [ss EXCEPT !.appiumDriver = NULL, !.currentPlatform = NoPlatform,
               !.currentDevice = None]

\* Lines 207-208, 302-308: remote() rejected.
StartRemoteFailed_Truncating(c) ==
    /\ Running
    /\ calls[c].pc = "remote"
    /\ sharedState' = CatchBlock(sharedState)
    /\ calls' = [calls EXCEPT ![c] = IdleCall]
    /\ result' = Outcome("start_session", "error_starting", <<>>)
    /\ files' = [f \in Paths |-> [files[f] EXCEPT !.content = <<>>]]
    /\ UNCHANGED <<sessions, procs, es, gdl, handlers, nextChunk, lateCalls, exited,
                   tl, drain, applied>>

StartRemoteFailed(c) ==
    /\ Running
    /\ calls[c].pc = "remote"
    /\ sharedState' = CatchBlock(sharedState)
    /\ calls' = [calls EXCEPT ![c] = IdleCall]
    /\ result' = Outcome("start_session", "error_starting", <<>>)
    /\ UNCHANGED <<sessions, procs, files, es, gdl, handlers, nextChunk, lateCalls,
                   exited, tl, drain, applied>>

\* Line 225: the sink the subprocess of a session on selectedPlatform writes to.
LogFilePathOf(selectedPlatform) ==
    IF selectedPlatform = "ios" THEN deviceLogFilePath ELSE androidLogFilePath

SpawnResults == {"ok", "spawn_throws", "pipe_throws"}

\* Lines 237-308, from the intermediate sharedState ss, subprocess table pr and
\* sink files fl: spawn, createWriteStream (which creates the sink when it is
\* missing), pipe, the event handlers, and the return; a throw of spawn (before
\* the assignment of line 240/272) or of the pipe lines (after it and after the
\* stream's creation, before the handlers are registered) lands in the catch block.
SpawnPhase(c, ss, pr, fl) ==
    LET cr == calls[c]
        dev == cr.selectedDevice[1]
        logFilePath == LogFilePathOf(dev.platform)
        pid == cr.session
        child(piped) == [state |-> "running", kills |-> 0, piped |-> piped,
                         path |-> logFilePath]
        opened == [Outcome("start_session", "error_starting", <<>>)
                      EXCEPT !.session = pid]
        created == IF logFilePath \in Paths
                   THEN [fl EXCEPT ![logFilePath].exists = TRUE] ELSE fl
    IN  /\ calls' = [calls EXCEPT ![c] = IdleCall]
        /\ IF dev.platform = "ios" /\ dev.id = ""
           THEN /\ sharedState' = ss
                /\ procs' = pr
                /\ files' = fl
                /\ result' = [opened EXCEPT !.kind = "started"]
           ELSE \E r \in SpawnResults :
                  CASE r = "ok" ->
                         /\ logFilePath # "undefined"
                         /\ sharedState' = [ss EXCEPT !.deviceLogProcess = pid]
                         /\ procs' = [pr EXCEPT ![pid] = child(TRUE)]
                         /\ files' = created
                         /\ result' = [opened EXCEPT !.kind = "started", !.proc = pid]
                    [] r = "spawn_throws" ->
                         /\ sharedState' = CatchBlock(ss)
                         /\ procs' = pr
                         /\ files' = fl
                         /\ result' = opened
                    [] r = "pipe_throws" ->
                         /\ sharedState' = CatchBlock([ss EXCEPT !.deviceLogProcess = pid])
                         /\ procs' = [pr EXCEPT ![pid] = child(FALSE)]
                         /\ files' = created
                         /\ result' = [opened EXCEPT !.proc = pid]

\* Lines 209-229 with the assignments of lines 209-211 left out: the session is
\* not recorded before the sink's truncate is awaited.
StartRemoteResolved_NotRecorded(c) ==
    /\ Running
    /\ calls[c].pc = "remote"
    /\ NextSession <= MaxSessions
    /\ LET sid == NextSession
           old == sharedState.deviceLogProcess
       IN  /\ sessions' = [sessions EXCEPT ![sid].state = "open"]
           /\ sharedState' = [sharedState EXCEPT !.deviceLogProcess = NULL]
           /\ procs' = IF old # NULL THEN [procs EXCEPT ![old].kills = @ + 1] ELSE procs
           /\ calls' = [calls EXCEPT ![c] = [@ EXCEPT !.pc = "truncate", !.session = sid]]
    /\ drain' = NoDrain
    /\ UNCHANGED <<files, result, es, gdl, tl, handlers, nextChunk, lateCalls,
                   exited, applied>>

\* Lines 209-229: remote() resolved; the session is recorded, a subprocess still
\* tracked is sent SIGTERM and forgotten, and the sink's truncate is awaited.
StartRemoteResolved(c) ==
    /\ Running
    /\ calls[c].pc = "remote"
    /\ NextSession <= MaxSessions
    /\ LET sid == NextSession
           dev == calls[c].selectedDevice[1]
           old == sharedState.deviceLogProcess
           ss == [appiumDriver |-> sid, currentPlatform |-> dev.platform,
                  currentDevice |-> Some(dev), deviceLogProcess |-> NULL]
           pr == IF old # NULL THEN [procs EXCEPT ![old].kills = @ + 1] ELSE procs
       IN  /\ sessions' = [sessions EXCEPT ![sid].state = "open"]
           /\ sharedState' = ss
           /\ procs' = pr
           /\ calls' = [calls EXCEPT ![c] = [@ EXCEPT !.pc = "truncate", !.session = sid]]
    /\ drain' = NoDrain
    /\ UNCHANGED <<files, result, es, gdl, tl, handlers, nextChunk, lateCalls,
                   exited, applied>>

\* Lines 229-308: the truncate settles (ENOENT and any other failure are
\* swallowed), then the subprocess is started.
StartTruncateSettled(c) ==
    /\ Running
    /\ calls[c].pc = "truncate"
    /\ \E truncated \in BOOLEAN :
         SpawnPhase(c, sharedState, procs,
                    [files EXCEPT ![deviceLogFilePath] =
                        IF truncated /\ @.exists THEN [@ EXCEPT !.content = <<>>] ELSE @])
    /\ UNCHANGED <<sessions, es, gdl, handlers, nextChunk, lateCalls, exited, tl,
                   drain, applied>>

\* ------------------------------------- startSession.js: the subprocess events
\* Lines 253-254, 282-283: output of the subprocess is appended to the sink.
\* Chunk 0 is output that is only white space; the others are distinct lines.
ProcWrites(p) ==
    /\ Running
    /\ procs[p].state = "running"
    /\ procs[p].piped
    /\ Len(files[procs[p].path].content) < MaxSinkLen
    /\ \E blank \in BOOLEAN :
         IF blank
         THEN /\ files' = [files EXCEPT ![procs[p].path].content = Append(@, 0)]
              /\ UNCHANGED nextChunk
         ELSE /\ nextChunk <= MaxWrites
              /\ files' = [files EXCEPT ![procs[p].path].content = Append(@, nextChunk)]
              /\ nextChunk' = nextChunk + 1
    /\ drain' = NoDrain
    /\ UNCHANGED <<result, sharedState, calls, sessions, procs, es, gdl, tl,
                   handlers, lateCalls, exited, applied>>

\* Lines 265-268, 294-297: the 'exit' listener, when it was registered, clears
\* sharedState.deviceLogProcess, whichever subprocess that field holds.
ProcExited(p) ==
    /\ Running
    /\ procs[p].state = "running"
    /\ procs' = [procs EXCEPT ![p].state = "exited"]
    /\ sharedState' = IF procs[p].piped
                      THEN [sharedState EXCEPT !.deviceLogProcess = NULL]
                      ELSE sharedState
    /\ UNCHANGED <<result, calls, sessions, files, es, gdl, handlers, nextChunk,
                   lateCalls, exited, tl, drain, applied>>

\* Lines 260-263, 289-292: the 'error' listener (the executable could not be
\* started): same effect on sharedState.
ProcErrored(p) ==
    /\ Running
    /\ procs[p].state = "running"
    /\ procs[p].piped
    /\ procs[p].kills = 0
    /\ procs' = [procs EXCEPT ![p].state = "exited"]
    /\ sharedState' = [sharedState EXCEPT !.deviceLogProcess = NULL]
    /\ UNCHANGED <<result, calls, sessions, files, es, gdl, handlers, nextChunk,
                   lateCalls, exited, tl, drain, applied>>

\* ------------------------------------------------ getDeviceLogs.js: handler
IdleLogs == [pc |-> "idle", logs |-> <<>>]

\* Line 58: logs.trim() === "" (chunk 0 stands for white space).
TrimIsEmpty_Never(logs) == FALSE
TrimIsEmpty(logs) == \A i \in 1..Len(logs) : logs[i] = 0

\* Line 37.
LogsGuardIdle == sharedState.appiumDriver = NULL

\* Lines 30, 43, 56, 66: the file get_device_logs tests, reads and truncates,
\* whichever platform the session is on.
DrainedPath == deviceLogFilePath

\* The content of the sink that get_device_logs reads.
SinkContent(fl) == fl[DrainedPath].content

\* Line 49 with the test of the sink file left out.
CaptureNeverStarted_IgnoresFile(deviceLogProcess, logFileExists) ==
    deviceLogProcess = NULL
\* Line 49: no subprocess is tracked and access() found no sink file.
CaptureNeverStarted(deviceLogProcess, logFileExists) ==
    deviceLogProcess = NULL /\ ~logFileExists

\* Lines 56-61, 73-79: what readFile() settling leads to: ENOENT, another read
\* error, blank content, or content to hand over.
ReadOutcome(sink, failed) ==
    IF ~sink.exists THEN "file_not_found"
    ELSE IF failed THEN "read_error"
    ELSE IF TrimIsEmpty(sink.content) THEN "nothing_new"
    ELSE "logs"

\* History of the handler: a call is dispatched in an active session. It is the
\* second of a pair when the call before it completed and nothing was written
\* since that one was dispatched; otherwise it is the first of a new pair.
DrainDispatched ==
    IF drain.stage = "between"
    THEN [drain EXCEPT !.stage = "second"]
    ELSE [NoDrain EXCEPT !.stage = "first", !.before = SinkContent(files)]

\* History of the handler: a call returns outcome, leaving the sink as sinkAfter;
\* fault tells that readFile() or truncate() failed during the call.
DrainReturned(outcome, sinkAfter, fault) ==
    IF drain.stage = "first"
    THEN [drain EXCEPT !.stage = "between", !.kind = outcome.kind,
                       !.logs = outcome.logs, !.after = sinkAfter, !.fault = fault]
    ELSE IF drain.stage = "second"
    THEN [drain EXCEPT !.stage = "done"]
    ELSE NoDrain

\* Lines 36-43: entry of the handler up to the await of access().
LogsDispatch ==
    /\ Dispatch
    /\ IF LogsGuardIdle
       THEN /\ result' = Outcome("get_device_logs", "not_active", <<>>)
            /\ drain' = NoDrain
            /\ UNCHANGED gdl
       ELSE /\ gdl' = [IdleLogs EXCEPT !.pc = "access"]
            /\ drain' = DrainDispatched
            /\ UNCHANGED result
    /\ UNCHANGED <<sharedState, calls, sessions, procs, files, es, tl, handlers,
                   nextChunk, exited, applied>>

\* Lines 43-56: access() settled; without a tracked subprocess and without a
\* sink file the handler returns, otherwise it awaits readFile().
LogsAccessSettled ==
    /\ Running
    /\ gdl.pc = "access"
    /\ LET logFileExists == files[deviceLogFilePath].exists
           outcome == Outcome("get_device_logs", "capture_not_active", <<>>)
       IN  IF CaptureNeverStarted(sharedState.deviceLogProcess, logFileExists)
           THEN /\ result' = outcome
                /\ gdl' = IdleLogs
                /\ drain' = DrainReturned(outcome, SinkContent(files), FALSE)
           ELSE /\ gdl' = [gdl EXCEPT !.pc = "readFile"]
                /\ UNCHANGED <<result, drain>>
    /\ UNCHANGED <<sharedState, calls, sessions, procs, files, es, tl, handlers,
                   nextChunk, lateCalls, exited, applied>>

\* Lines 56-66, 73-80 with a truncate before the return of line 60: blank
\* content is cleared when "nothing new" is returned.
LogsReadSettled_ClearsBlank ==
    /\ Running
    /\ gdl.pc = "readFile"
    /\ \E failed \in BOOLEAN :
         LET logs == SinkContent(files)
             returns(kind, fault) ==
                 /\ result' = Outcome("get_device_logs", kind, <<>>)
                 /\ gdl' = IdleLogs
                 /\ drain' = DrainReturned(Outcome("get_device_logs", kind, <<>>),
                                           logs, fault)
             kind == ReadOutcome(files[deviceLogFilePath], failed)
         IN  IF kind = "logs"
             THEN /\ gdl' = [pc |-> "truncate", logs |-> logs]
                  /\ UNCHANGED <<result, drain, files>>
             ELSE /\ returns(kind, kind \in {"file_not_found", "read_error"})
                  /\ files' = IF kind = "nothing_new"
                              THEN [files EXCEPT ![deviceLogFilePath].content = <<>>]
                              ELSE files
    /\ UNCHANGED <<sharedState, calls, sessions, procs, es, tl, handlers,
                   nextChunk, lateCalls, exited, applied>>

\* Lines 56-66, 73-80: readFile() settled: ENOENT, another read error, blank
\* content, or content to hand over, whose truncate is then awaited.
LogsReadSettled ==
    /\ Running
    /\ gdl.pc = "readFile"
    /\ \E failed \in BOOLEAN :
         LET logs == SinkContent(files)
             returns(kind, fault) ==
                 /\ result' = Outcome("get_device_logs", kind, <<>>)
                 /\ gdl' = IdleLogs
                 /\ drain' = DrainReturned(Outcome("get_device_logs", kind, <<>>),
                                           logs, fault)
             kind == ReadOutcome(files[deviceLogFilePath], failed)
         IN  IF kind = "logs"
             THEN /\ gdl' = [pc |-> "truncate", logs |-> logs]
                  /\ UNCHANGED <<result, drain>>
             ELSE returns(kind, kind \in {"file_not_found", "read_error"})
    /\ UNCHANGED <<sharedState, calls, sessions, procs, files, es, tl, handlers,
                   nextChunk, lateCalls, exited, applied>>

\* Lines 66-72: truncate() settled (a failure is only logged); the logs read
\* before it are returned.
LogsTruncateSettled ==
    /\ Running
    /\ gdl.pc = "truncate"
    /\ \E truncated \in BOOLEAN :
         LET outcome == [Outcome("get_device_logs", "logs", <<>>)
                            EXCEPT !.logs = gdl.logs]
             fl == [files EXCEPT ![deviceLogFilePath].content =
                       IF truncated THEN <<>> ELSE @]
         IN  /\ files' = fl
             /\ result' = outcome
             /\ drain' = DrainReturned(outcome, SinkContent(fl), ~truncated)
    /\ gdl' = IdleLogs
    /\ UNCHANGED <<sharedState, calls, sessions, procs, es, tl, handlers, nextChunk,
                   lateCalls, exited, applied>>

\* ------------------------------------------------ enterTextTool.js: enter_text
ElementIds == {"", "e1"}
Texts == {"undefined", "t"}

\* Lines 37-51: entry of the handler up to the await of elementSendKeys().
EnterTextDispatch ==
    /\ Dispatch
    /\ \E elementId \in ElementIds, text \in Texts :
         IF sharedState.appiumDriver = NULL
         THEN /\ result' = Outcome("enter_text", "not_active", <<>>)
              /\ UNCHANGED tl
         ELSE IF elementId = ""
         THEN /\ result' = Outcome("enter_text", "no_element_id", <<>>)
              /\ UNCHANGED tl
         ELSE IF text = "undefined"
         THEN /\ result' = Outcome("enter_text", "no_text", <<>>)
              /\ UNCHANGED tl
         ELSE /\ tl' = [pc |-> "elementSendKeys", driver |-> sharedState.appiumDriver]
              /\ UNCHANGED result
    /\ UNCHANGED <<sharedState, calls, sessions, procs, files, es, gdl, drain,
                   handlers, nextChunk, exited, applied>>

\* Lines 51-57 with a catch that forgets the driver when elementSendKeys() fails.
EnterTextSettled_DropsDriver ==
    /\ Running
    /\ tl.pc = "elementSendKeys"
    /\ \E kind \in {"entered", "enter_error"} :
         /\ result' = Outcome("enter_text", kind, <<>>)
         /\ sharedState' = IF kind = "enter_error"
                           THEN [sharedState EXCEPT !.appiumDriver = NULL]
                           ELSE sharedState
    /\ tl' = IdleTool
    /\ UNCHANGED <<calls, sessions, procs, files, es, gdl, drain,
                   handlers, nextChunk, lateCalls, exited, applied>>

\* Lines 51-57: elementSendKeys() settled.
EnterTextSettled ==
    /\ Running
    /\ tl.pc = "elementSendKeys"
    /\ \E kind \in {"entered", "enter_error"} :
         result' = Outcome("enter_text", kind, <<>>)
    /\ tl' = IdleTool
    /\ UNCHANGED <<sharedState, calls, sessions, procs, files, es, gdl, drain,
                   handlers, nextChunk, lateCalls, exited, applied>>

\* ------------------------------------------- simulateGesture.js: simulate_gesture
GestureDescriptions == {<<>>, <<"{">>, <<"{", "}">>, <<"[", "]">>}

\* Lines 46-49: JSON.parse() and Array.isArray() on the texts above: an array,
\* another value, or a SyntaxError.
ParseGesture(gestureDescription) ==
    IF gestureDescription = <<"[", "]">> THEN "array"
    ELSE IF gestureDescription = <<"{", "}">> THEN "not_array"
    ELSE "syntax_error"

\* Lines 36-66: entry of the handler up to the await of performActions().
SimulateGestureDispatch ==
    /\ Dispatch
    /\ \E gestureDescription \in GestureDescriptions :
         IF sharedState.appiumDriver = NULL
         THEN /\ result' = Outcome("simulate_gesture", "not_active", <<>>)
              /\ UNCHANGED tl
         ELSE IF gestureDescription = <<>>
         THEN /\ result' = Outcome("simulate_gesture", "no_gesture", <<>>)
              /\ UNCHANGED tl
         ELSE IF ParseGesture(gestureDescription) # "array"
         THEN /\ result' = Outcome("simulate_gesture", "parse_error", <<>>)
              /\ UNCHANGED tl
         ELSE /\ tl' = [pc |-> "performActions", driver |-> sharedState.appiumDriver]
              /\ UNCHANGED result
    /\ UNCHANGED <<sharedState, calls, sessions, procs, files, es, gdl, drain,
                   handlers, nextChunk, exited, applied>>

\* Lines 66-73: performActions() settled.
SimulateGestureSettled ==
    /\ Running
    /\ tl.pc = "performActions"
    /\ \E kind \in {"performed", "perform_error"} :
         result' = Outcome("simulate_gesture", kind, <<>>)
    /\ tl' = IdleTool
    /\ UNCHANGED <<sharedState, calls, sessions, procs, files, es, gdl, drain,
                   handlers, nextChunk, lateCalls, exited, applied>>

\* ------------------------------------- enterTextTool.js: press_home_button
\* Line 81: capabilities.platformName of the driver, lowercased: the platform
\* the session was requested for (startSession.js lines 171-195).
platformName == sharedState.currentPlatform

\* Lines 74-92: entry of the handler up to the await of the driver command; the
\* handler throws when no session is started and for an unsupported platform.
PressHomeDispatch ==
    /\ Dispatch
    /\ IF sharedState.appiumDriver = NULL
       THEN /\ result' = Thrown("press_home_button", "throws_not_started")
            /\ UNCHANGED tl
       ELSE IF platformName = "ios"
       THEN /\ tl' = [pc |-> "execute", driver |-> sharedState.appiumDriver]
            /\ UNCHANGED result
       ELSE IF platformName = "android"
       THEN /\ tl' = [pc |-> "pressKeyCode", driver |-> sharedState.appiumDriver]
            /\ UNCHANGED result
       ELSE /\ result' = Thrown("press_home_button", "throws_failed")
            /\ UNCHANGED tl
    /\ UNCHANGED <<sharedState, calls, sessions, procs, files, es, gdl, drain,
                   handlers, nextChunk, exited, applied>>

\* Lines 85-103: the driver command settled: the success message is returned
\* as a bare string, a failure is thrown again.
PressHomeSettled ==
    /\ Running
    /\ tl.pc \in {"execute", "pressKeyCode"}
    /\ \E done \in BOOLEAN :
         result' = IF done THEN BareString("press_home_button", "pressed")
                   ELSE Thrown("press_home_button", "throws_failed")
    /\ tl' = IdleTool
    /\ UNCHANGED <<sharedState, calls, sessions, procs, files, es, gdl, drain,
                   handlers, nextChunk, lateCalls, exited, applied>>

\* ------------------------------------------------------ endSession.js (spec)
\* end() that goes through the Active path in every state: a subprocess still
\* tracked is sent the termination request and the call reports a session ended.
EndDispatch_AlwaysStops ==
    /\ Dispatch
    /\ LET tracked == sharedState.deviceLogProcess
       IN  /\ procs' = IF tracked # NULL THEN [procs EXCEPT ![tracked].kills = @ + 1]
                       ELSE procs
           /\ sharedState' = [sharedState EXCEPT !.deviceLogProcess = NULL]
           /\ IF sharedState.appiumDriver = NULL
              THEN /\ result' = Outcome("end_session", "ended", <<>>)
                   /\ UNCHANGED <<sessions, es>>
              ELSE /\ sessions' = [sessions EXCEPT ![sharedState.appiumDriver].deletes = @ + 1]
                   /\ es' = [pc |-> "deleteSession"]
                   /\ UNCHANGED result
    /\ UNCHANGED <<calls, files, gdl, handlers, nextChunk, exited, tl, drain,
                   applied>>

\* Section 4.2, end(): Idle is a no-op; Active stops log capture (termination
\* request, handle cleared), then asks the engine to close the session.
EndDispatch ==
    /\ Dispatch
    /\ IF sharedState.appiumDriver = NULL
       THEN /\ result' = Outcome("end_session", "no_session", <<>>)
            /\ UNCHANGED <<sharedState, sessions, procs, es>>
       ELSE LET tracked == sharedState.deviceLogProcess
            IN  /\ procs' = IF tracked # NULL THEN [procs EXCEPT ![tracked].kills = @ + 1]
                            ELSE procs
                /\ sharedState' = [sharedState EXCEPT !.deviceLogProcess = NULL]
                /\ sessions' = [sessions EXCEPT ![sharedState.appiumDriver].deletes = @ + 1]
                /\ es' = [pc |-> "deleteSession"]
                /\ UNCHANGED result
    /\ UNCHANGED <<calls, files, gdl, handlers, nextChunk, exited, tl, drain,
                   applied>>

\* Section 4.2, end(): the close settles; a failure is logged; Idle either way.
EndCloseSettled ==
    /\ Running
    /\ es.pc = "deleteSession"
    /\ \E closed \in BOOLEAN :
         /\ sessions' = IF closed /\ sharedState.appiumDriver # NULL
                        THEN [sessions EXCEPT ![sharedState.appiumDriver].state = "closed"]
                        ELSE sessions
         /\ result' = Outcome("end_session",
                              IF closed THEN "ended" ELSE "ended_close_failed", <<>>)
    /\ es' = [pc |-> "idle"]
    /\ sharedState' = CatchBlock(sharedState)
    /\ UNCHANGED <<calls, procs, files, gdl, handlers, nextChunk, lateCalls, exited,
                   tl, drain, applied>>

\* ------------------------------------------------- server.js: signal listeners
\* An invocation of a listener: where it is suspended, and the session whose
\* deleteSession() it called, if any. The SIGINT listener (lines 128-146) and
\* the SIGTERM listener (lines 148-166) have the same body.
Listener(pc, session) == [pc |-> pc, session |-> session]

\* Lines 135-141, 155-161: a tracked subprocess is sent SIGTERM and forgotten.
StopLogCapture ==
    IF sharedState.deviceLogProcess # NULL
    THEN /\ procs' = [procs EXCEPT ![sharedState.deviceLogProcess].kills = @ + 1]
         /\ sharedState' = [sharedState EXCEPT !.deviceLogProcess = NULL]
    ELSE UNCHANGED <<procs, sharedState>>

\* Lines 129-134, 149-154: the ordering of the listener: with a driver,
\* deleteSession() is called and awaited before anything else.
ClosesSessionFirst == sharedState.appiumDriver # NULL

\* Lines 128-144: SIGINT arrives and its listener is entered: with a driver,
\* deleteSession() is called and awaited (129-134); without one, lines 135-144
\* follow at once.
SigintDelivered ==
    /\ Running
    /\ Len(handlers) < MaxSignals
    /\ IF ClosesSessionFirst
       THEN /\ handlers' = Append(handlers,
                                  Listener("deleteSession", sharedState.appiumDriver))
            /\ sessions' = [sessions EXCEPT ![sharedState.appiumDriver].deletes = @ + 1]
            /\ UNCHANGED <<sharedState, procs>>
       ELSE /\ handlers' = Append(handlers, Listener("serverClose", NULL))
            /\ StopLogCapture
            /\ UNCHANGED sessions
    /\ UNCHANGED <<result, calls, files, es, gdl, tl, drain, nextChunk, lateCalls,
                   exited, applied>>

\* Lines 148-164 without the test of line 150: the subprocess is stopped at once.
SigtermDelivered_SkipsSession ==
    /\ Running
    /\ Len(handlers) < MaxSignals
    /\ handlers' = Append(handlers, Listener("serverClose", NULL))
    /\ StopLogCapture
    /\ UNCHANGED sessions
    /\ UNCHANGED <<result, calls, files, es, gdl, tl, drain, nextChunk, lateCalls,
                   exited, applied>>

\* Lines 148-164: SIGTERM arrives and its listener is entered: with a driver,
\* deleteSession() is called and awaited (149-154); without one, lines 155-164
\* follow at once.
SigtermDelivered ==
    /\ Running
    /\ Len(handlers) < MaxSignals
    /\ IF ClosesSessionFirst
       THEN /\ handlers' = Append(handlers,
                                  Listener("deleteSession", sharedState.appiumDriver))
            /\ sessions' = [sessions EXCEPT ![sharedState.appiumDriver].deletes = @ + 1]
            /\ UNCHANGED <<sharedState, procs>>
       ELSE /\ handlers' = Append(handlers, Listener("serverClose", NULL))
            /\ StopLogCapture
            /\ UNCHANGED sessions
    /\ UNCHANGED <<result, calls, files, es, gdl, tl, drain, nextChunk, lateCalls,
                   exited, applied>>

\* A listener is entered.
ListenerEntered == SigintDelivered \/ SigtermDelivered

\* Lines 131-144: the deleteSession() the SIGINT listener awaits settled (a
\* rejection is logged by the catch); a tracked subprocess is stopped;
\* server.close() is awaited.
SigintCloseSettled(h) ==
    /\ Running
    /\ handlers[h].pc = "deleteSession"
    /\ \E closed \in BOOLEAN :
         sessions' = IF closed THEN [sessions EXCEPT ![handlers[h].session].state = "closed"]
                     ELSE sessions
    /\ handlers' = [handlers EXCEPT ![h].pc = "serverClose"]
    /\ StopLogCapture
    /\ UNCHANGED <<result, calls, files, es, gdl, tl, drain, nextChunk, lateCalls,
                   exited, applied>>

\* Lines 151-164: the deleteSession() the SIGTERM listener awaits settled (a
\* rejection is logged by the catch); a tracked subprocess is stopped;
\* server.close() is awaited.
SigtermCloseSettled(h) ==
    /\ Running
    /\ handlers[h].pc = "deleteSession"
    /\ \E closed \in BOOLEAN :
         sessions' = IF closed THEN [sessions EXCEPT ![handlers[h].session].state = "closed"]
                     ELSE sessions
    /\ handlers' = [handlers EXCEPT ![h].pc = "serverClose"]
    /\ StopLogCapture
    /\ UNCHANGED <<result, calls, files, es, gdl, tl, drain, nextChunk, lateCalls,
                   exited, applied>>

\* The deleteSession() a listener awaits settled. An invocation does not record
\* which of the two listeners it is an invocation of.
ListenerCloseSettled(h) == SigintCloseSettled(h) \/ SigtermCloseSettled(h)

\* Lines 144-145: the server.close() the SIGINT listener awaits settled; process.exit(0).
SigintServerClosed(h) ==
    /\ Running
    /\ handlers[h].pc = "serverClose"
    /\ handlers' = [handlers EXCEPT ![h].pc = "exit"]
    /\ exited' = TRUE
    /\ UNCHANGED <<result, sharedState, calls, sessions, procs, files, es, gdl, tl,
                   drain, nextChunk, lateCalls, applied>>

\* Lines 164-165: the server.close() the SIGTERM listener awaits settled; process.exit(0).
SigtermServerClosed(h) ==
    /\ Running
    /\ handlers[h].pc = "serverClose"
    /\ handlers' = [handlers EXCEPT ![h].pc = "exit"]
    /\ exited' = TRUE
    /\ UNCHANGED <<result, sharedState, calls, sessions, procs, files, es, gdl, tl,
                   drain, nextChunk, lateCalls, applied>>

\* The server.close() a listener awaits settled.
ListenerServerClosed(h) == SigintServerClosed(h) \/ SigtermServerClosed(h)

\* ------------------------------------------------------ the tool dispatcher
\* The content a handler returned is sent to the client.
ResponseSent ==
    /\ ~exited
    /\ result.tool # "none"
    /\ result' = NoOutcome
    /\ UNCHANGED <<sharedState, calls, sessions, procs, files, es, gdl, handlers,
                   nextChunk, lateCalls, exited, tl, drain, applied>>

\* ---------------------------------------------------------------- behaviour
\* server.js lines 75-78 and the environment when the server starts.
ServerStarted ==
    /\ sharedState = [appiumDriver |-> NULL, deviceLogProcess |-> NULL,
                      currentPlatform |-> NoPlatform, currentDevice |-> None]
    /\ calls = [c \in Calls |-> IdleCall]
    /\ sessions = [s \in SessionIds |-> NoSession]
    /\ procs = [p \in ProcIds |-> NoProc]
    /\ files = [f \in Paths |-> [exists |-> FALSE, content |-> <<>>]]
    /\ es = [pc |-> "idle"]
    /\ gdl = IdleLogs
    /\ tl = IdleTool
    /\ drain = NoDrain
    /\ result = NoOutcome
    /\ handlers = <<>>
    /\ nextChunk = 1
    /\ lateCalls = 0
    /\ exited = FALSE

Init ==
    /\ ServerStarted
    /\ applied = NoApplication

Next ==
    \/ \E c \in Calls : StartDispatch(c)
    \/ \E c \in Calls : StartExecSettled(c)
    \/ \E c \in Calls : StartRemoteFailed(c)
    \/ \E c \in Calls : StartRemoteResolved(c)
    \/ \E c \in Calls : StartTruncateSettled(c)
    \/ \E p \in ProcIds : ProcWrites(p)
    \/ \E p \in ProcIds : ProcExited(p)
    \/ \E p \in ProcIds : ProcErrored(p)
    \/ LogsDispatch
    \/ LogsAccessSettled
    \/ LogsReadSettled
    \/ LogsTruncateSettled
    \/ EnterTextDispatch
    \/ EnterTextSettled
    \/ SimulateGestureDispatch
    \/ SimulateGestureSettled
    \/ PressHomeDispatch
    \/ PressHomeSettled
    \/ ResponseSent
    \/ EndDispatch
    \/ EndCloseSettled
    \/ SigintDelivered
    \/ SigtermDelivered
    \/ \E h \in DOMAIN handlers : ListenerCloseSettled(h)
    \/ \E h \in DOMAIN handlers : ListenerServerClosed(h)

Spec == Init /\ [][Next]_vars

\* What the event loop guarantees: the response of a handler that returned is
\* sent, and a listener whose server.close() settled runs to process.exit().
\* Nothing makes the automation engine answer a deleteSession().
FairSpec ==
    /\ Spec
    /\ WF_vars(ResponseSent)
    /\ WF_vars(\E h \in DOMAIN handlers : ListenerServerClosed(h))

\* start_session with a client that does not wait for the answer to a call
\* before it sends the next one; the other tools and the signals stay out.
OverlapNext ==
    \/ \E c \in Calls : StartDispatch(c)
    \/ \E c \in Calls : StartOverlapping(c)
    \/ \E c \in Calls : StartExecSettled(c)
    \/ \E c \in Calls : StartRemoteFailed(c)
    \/ \E c \in Calls : StartRemoteResolved(c)
    \/ \E c \in Calls : StartTruncateSettled(c)
    \/ \E p \in ProcIds : ProcExited(p)
    \/ ResponseSent

OverlapSpec == Init /\ [][OverlapNext]_vars

\* ------------------------------------------------ the functions on their own
\* The arguments lines 129-165 of startSession.js can be entered with: lines 84
\* and 116 run a platform's detection only when the requested platform is that
\* one or 'auto'.
SelectInputs ==
    { [fn |-> "SelectDevice", platform |-> platform, deviceName |-> deviceName,
       iosDevices |-> IF platform \in {"auto", "ios"} THEN IOSDevicesOf(out) ELSE <<>>,
       androidDevices |-> IF platform \in {"auto", "android"} THEN detected ELSE <<>>] :
      platform \in Platforms, deviceName \in DeviceNames, out \in ExecOutputs,
      detected \in AndroidLists }

\* The arguments of parseIOSVersion; a missing argument is as falsy as the
\* empty string.
ParseInputs == { [fn |-> "parseIOSVersion", runtimeString |-> r] : r \in RuntimeStrings }

\* What start_session finds on the host when it detects devices: the answer of
\* xcrun and the Android devices attached.
DetectInputs ==
    { [fn |-> "detection", platform |-> platform, deviceName |-> deviceName,
       xcrun |-> out, attached |-> attached] :
      platform \in Platforms, deviceName \in DeviceNames, out \in ExecOutputs,
      attached \in AndroidLists }

\* A booted entry of the simulator list, as lines 93-106 meet it.
CapabilityInputs ==
    { [fn |-> "finalCapabilities", raw |-> raw] : raw \in {Sim1, Sim2} }

\* What a get_device_logs call made in an Active session meets: a subprocess
\* tracked or not, the sink file and its content, a readFile() that fails or not.
LogsInputs ==
    { [fn |-> "get_device_logs", deviceLogProcess |-> tracked,
       sink |-> [exists |-> exists, content |-> IF exists THEN content ELSE <<>>],
       failed |-> failed] :
      tracked \in {NULL} \cup ProcIds, exists \in BOOLEAN,
      content \in {<<>>, <<0>>, <<1>>, <<0, 1>>}, failed \in BOOLEAN }

\* The platform of the selected device (line 166).
SinkInputs ==
    { [fn |-> "logFilePath", selectedPlatform |-> p] : p \in {"ios", "android"} }

\* The function has returned.
Returned == "out" \in DOMAIN applied

\* startSession.js lines 129-165 run on the arguments.
SelectApplied ==
    /\ applied.fn = "SelectDevice"
    /\ ~Returned
    /\ applied' = [fn |-> "SelectDevice", platform |-> applied.platform,
                   deviceName |-> applied.deviceName,
                   iosDevices |-> applied.iosDevices,
                   androidDevices |-> applied.androidDevices,
                   out |-> SelectDevice(applied.platform, applied.deviceName,
                                        applied.iosDevices, applied.androidDevices)]
    /\ UNCHANGED <<sharedState, calls, sessions, procs, files, es, gdl, tl,
                   drain, result, handlers, nextChunk, lateCalls, exited>>

\* server.js lines 53-64 run on the argument.
ParseApplied ==
    /\ applied.fn = "parseIOSVersion"
    /\ ~Returned
    /\ applied' = [fn |-> "parseIOSVersion", runtimeString |-> applied.runtimeString,
                   out |-> parseIOSVersion(applied.runtimeString)]
    /\ UNCHANGED <<sharedState, calls, sessions, procs, files, es, gdl, tl,
                   drain, result, handlers, nextChunk, lateCalls, exited>>

\* startSession.js lines 83-165 as server.js wires them, run on a host: iOS
\* detection when the platform asks for it, then Android detection and the
\* selection.
DetectApplied ==
    /\ applied.fn = "detection"
    /\ ~Returned
    /\ LET iosDevices == IF applied.platform \in {"auto", "ios"}
                          THEN IOSDevicesOf(applied.xcrun) ELSE <<>>
       IN  applied' = [fn |-> "detection", platform |-> applied.platform,
                       deviceName |-> applied.deviceName, xcrun |-> applied.xcrun,
                       attached |-> applied.attached,
                       out |-> AfterIOSDetection(applied.platform, applied.deviceName,
                                                 iosDevices)]
    /\ UNCHANGED <<sharedState, calls, sessions, procs, files, es, gdl, tl,
                   drain, result, handlers, nextChunk, lateCalls, exited>>

\* startSession.js lines 96-106 and 169-195: the booted entry becomes a device
\* descriptor, and the descriptor, once selected, the capabilities.
CapabilitiesApplied ==
    /\ applied.fn = "finalCapabilities"
    /\ ~Returned
    /\ applied' = [fn |-> "finalCapabilities", raw |-> applied.raw,
                   out |-> finalCapabilities(MkIOSDevice(applied.raw))]
    /\ UNCHANGED <<sharedState, calls, sessions, procs, files, es, gdl, tl,
                   drain, result, handlers, nextChunk, lateCalls, exited>>

\* getDeviceLogs.js lines 41-80 run in an Active session: the text returned.
LogsApplied ==
    /\ applied.fn = "get_device_logs"
    /\ ~Returned
    /\ LET kind == IF CaptureNeverStarted(applied.deviceLogProcess, applied.sink.exists)
                   THEN "capture_not_active"
                   ELSE ReadOutcome(applied.sink, applied.failed)
       IN  applied' = [fn |-> "get_device_logs",
                       deviceLogProcess |-> applied.deviceLogProcess,
                       sink |-> applied.sink, failed |-> applied.failed,
                       out |-> [Outcome("get_device_logs", kind, <<>>) EXCEPT
                                   !.logs = IF kind = "logs" THEN applied.sink.content
                                            ELSE <<>>]]
    /\ UNCHANGED <<sharedState, calls, sessions, procs, files, es, gdl, tl,
                   drain, result, handlers, nextChunk, lateCalls, exited>>

\* startSession.js line 225 and getDeviceLogs.js line 56: the file a session's
\* subprocess is piped to, and the file get_device_logs drains in that session.
SinkApplied ==
    /\ applied.fn = "logFilePath"
    /\ ~Returned
    /\ applied' = [fn |-> "logFilePath", selectedPlatform |-> applied.selectedPlatform,
                   out |-> [written |-> LogFilePathOf(applied.selectedPlatform),
                            drained |-> DrainedPath]]
    /\ UNCHANGED <<sharedState, calls, sessions, procs, files, es, gdl, tl,
                   drain, result, handlers, nextChunk, lateCalls, exited>>

PureInit ==
    /\ ServerStarted
    /\ applied \in SelectInputs \cup ParseInputs \cup DetectInputs \cup CapabilityInputs
                   \cup LogsInputs \cup SinkInputs

PureNext ==
    \/ SelectApplied
    \/ ParseApplied
    \/ DetectApplied
    \/ CapabilitiesApplied
    \/ LogsApplied
    \/ SinkApplied

PureSpec == PureInit /\ [][PureNext]_vars

\* ===================================================================== claims

\* C1: a start_session call made while a session is active returns the
\* "already active" outcome and changes nothing: the handles, the engine's
\* sessions, the subprocesses and the sink stay as they were.
C1_StartWhileActiveChangesNothing ==
    [][(/\ NoCallInFlight
        /\ result.tool = "none"
        /\ sharedState.appiumDriver # NULL
        /\ (calls' # calls \/ result'.tool = "start_session"))
       => (/\ result' = Outcome("start_session", "already_active", <<>>)
           /\ UNCHANGED <<sharedState, calls, sessions, procs, files>>)]_vars

C1_Witness ==
    /\ result = Outcome("start_session", "already_active", <<>>)
    /\ sharedState.appiumDriver # NULL
    /\ sharedState.deviceLogProcess # NULL

\* C2: when remote() fails, start_session returns an error outcome, the session
\* is Idle (driver, platform and device absent), the sink is not truncated and
\* no subprocess is spawned.
C2_RemoteFailureLeavesIdle ==
    [][(\E c \in Calls : calls[c].pc = "remote" /\ calls'[c].pc = "idle")
       => (/\ result' = Outcome("start_session", "error_starting", <<>>)
           /\ sharedState'.appiumDriver = NULL
           /\ sharedState'.currentPlatform = NoPlatform
           /\ sharedState'.currentDevice = None
           /\ UNCHANGED <<files, procs, sessions>>)]_vars

C2_Witness ==
    /\ result = Outcome("start_session", "error_starting", <<>>)
    /\ files[deviceLogFilePath].content # <<>>
    /\ sharedState.appiumDriver = NULL

\* C3: once the connection is opened, a failure of log capture is only logged:
\* a start_session call that opened a session returns success and the session
\* it opened is the active one.
C3_CaptureFailureOnlyLogged ==
    (result.tool = "start_session" /\ result.session # NULL)
       => (result.kind = "started" /\ sharedState.appiumDriver = result.session)

\* C4: whenever start_session ends with an error or an early return, nothing it
\* created is left behind: the session it opened is not open, the subprocess it
\* spawned is neither running nor tracked.
C4_NothingLeftAfterError ==
    (result.tool = "start_session" /\ result.kind # "started")
       => (/\ result.session # NULL => sessions[result.session].state # "open"
           /\ result.proc # NULL => procs[result.proc].state # "running"
           /\ result.proc # NULL => sharedState.deviceLogProcess # result.proc)

\* C5: between tool calls a log-capture subprocess is tracked only while a
\* driver is held.
C5_ProcessOnlyWithDriver ==
    NoCallInFlight
       => (sharedState.deviceLogProcess # NULL => sharedState.appiumDriver # NULL)

\* C6: between tool calls the driver, the platform and the device are all
\* present or all absent, and every driver method a handler or a listener
\* invokes is invoked on a handle that is present.
C6_HandlesTogether ==
    /\ NoCallInFlight
          => \/ /\ sharedState.appiumDriver # NULL
                /\ sharedState.currentPlatform # NoPlatform
                /\ sharedState.currentDevice # None
             \/ /\ sharedState.appiumDriver = NULL
                /\ sharedState.currentPlatform = NoPlatform
                /\ sharedState.currentDevice = None
    /\ tl.pc # "idle" => tl.driver # NULL
    /\ \A h \in DOMAIN handlers :
          handlers[h].pc = "deleteSession" => handlers[h].session # NULL

C6_Witness ==
    /\ result.tool = "start_session"
    /\ result.kind = "error_starting"
    /\ result.session # NULL
    /\ sharedState.currentPlatform = NoPlatform

\* C7: when a second signal arrives while the shutdown of the first is under
\* way, deleteSession() is invoked at most once on a session and a subprocess
\* is sent the kill signal at most once.
C7_ShutdownRunsOnce ==
    /\ \A s \in SessionIds :
          Cardinality({h \in DOMAIN handlers : handlers[h].session = s}) <= 1
    /\ \A p \in ProcIds : procs[p].kills <= 1

\* C8: during a signal-initiated shutdown the subprocess is sent the kill signal
\* before the session is closed: when a listener calls deleteSession(), no
\* subprocess is tracked any more.
C8_KillBeforeClose ==
    [][(/\ Len(handlers') > Len(handlers)
        /\ handlers'[Len(handlers')].pc = "deleteSession")
       => sharedState.deviceLogProcess = NULL]_vars

\* C9: after a signal the process eventually terminates, even when the
\* session's close fails or never completes.
C9_SignalLeadsToExit == (handlers # <<>>) ~> exited

C11_AtMostOnce ==
    (drain.stage = "done" /\ result.tool = "get_device_logs")
       => \A i \in 1..Len(result.logs), j \in 1..Len(drain.logs) :
             result.logs[i] # 0 => result.logs[i] # drain.logs[j]

\* C12: a handler that needs an active session (enter_text, simulate_gesture,
\* get_device_logs, press_home_button), called while no session is active,
\* returns the "session not active" text outcome, calls no driver method and
\* does not touch the log sink.
C12_IdleCallsRefused ==
    [][(/\ NoCallInFlight
        /\ result.tool = "none"
        /\ sharedState.appiumDriver = NULL
        /\ \/ result'.tool \in {"enter_text", "simulate_gesture", "get_device_logs",
                                "press_home_button"}
           \/ tl' # tl
           \/ gdl' # gdl)
       => (/\ result'.shape = "text"
           /\ result'.kind = "not_active"
           /\ UNCHANGED <<tl, gdl, files>>)]_vars

\* C13: every tool handler, on every path, completes by returning a list of
\* items tagged as text; none throws.
C13_AlwaysTextOutcome == result.tool # "none" => result.shape = "text"

\* C14: a start_session call with a deviceName filter that ends without a
\* selected device (no candidate's name contains the filter, or there is no
\* candidate at all) returns the not-found error naming the filter, opens no
\* connection and leaves the session Idle.
C14_FilterWithoutMatch ==
    [][\A c \in Calls :
          (/\ calls[c].pc = "execAsync"
           /\ calls[c].deviceName # <<>>
           /\ calls'[c].pc = "idle")
          => (/\ result'.tool = "start_session"
              /\ result'.kind = "device_not_found"
              /\ result'.about = calls[c].deviceName
              /\ sharedState'.appiumDriver = NULL
              /\ UNCHANGED sessions)]_vars


\* C15: with no name filter, 'ios' selects the first detected iOS device,
\* 'android' the first detected Android device, and 'auto' the first iOS device
\* if there is one and otherwise the first Android device; when the requested
\* platform has no device the result is an error naming that platform, and no
\* device is selected, so that no connection is attempted.
C15_SelectionWithoutFilter ==
    (applied.fn = "SelectDevice" /\ Returned /\ applied.deviceName = <<>>)
       => LET ios == applied.iosDevices
              android == applied.androidDevices
              device == applied.out.device
              outcome == applied.out.outcome
              Refused(name) == /\ device = <<>>
                               /\ outcome.tool = "start_session"
                               /\ outcome.shape = "text"
                               /\ outcome.kind \in {"no_devices", "no_ios", "no_android"}
                               /\ outcome.about = <<name>>
          IN  /\ applied.platform = "ios" =>
                    IF ios # <<>> THEN device = <<ios[1]>> ELSE Refused("ios")
              /\ applied.platform = "android" =>
                    IF android # <<>> THEN device = <<android[1]>> ELSE Refused("android")
              /\ applied.platform = "auto" =>
                    IF ios # <<>> THEN device = <<ios[1]>>
                    ELSE IF android # <<>> THEN device = <<android[1]>>
                    ELSE Refused("iOS or Android")

\* 'auto' with no iOS device detected falls back to the first Android device.
C15_Witness ==
    /\ applied.fn = "SelectDevice"
    /\ Returned
    /\ applied.platform = "auto"
    /\ applied.deviceName = <<>>
    /\ applied.iosDevices = <<>>
    /\ Len(applied.androidDevices) = 2
    /\ applied.out.device = <<Emu2>>


C18_SameShutdownPath ==
    [][/\ SigintDelivered <=> SigtermDelivered
       /\ \A h \in DOMAIN handlers :
             /\ SigintCloseSettled(h) <=> SigtermCloseSettled(h)
             /\ SigintServerClosed(h) <=> SigtermServerClosed(h)]_vars

\* A shutdown ran to its end from an Active state: the session was asked to
\* close, the subprocess was sent SIGTERM, and the process exited.
C18_Witness ==
    /\ exited
    /\ \E s \in SessionIds : sessions[s].deletes > 0
    /\ \E p \in ProcIds : procs[p].kills > 0
    /\ sharedState.deviceLogProcess = NULL


\* C19: end called while the session is Idle is a no-op: it returns the
\* "no session" outcome, asks the engine to close nothing, sends no termination
\* request, and leaves the handles, the sessions, the subprocesses and the sink
\* as they were, so that repeating it changes nothing either.
C19_EndWhileIdleIsNoOp ==
    [][(/\ sharedState.appiumDriver = NULL
        /\ es.pc = "idle"
        /\ result.tool = "none"
        /\ result'.tool = "end_session")
       => (/\ result' = Outcome("end_session", "no_session", <<>>)
           /\ UNCHANGED <<sharedState, sessions, procs, files, es>>)]_vars

\* end was called while Idle after a session had been opened and closed.
C19_Witness ==
    /\ result = Outcome("end_session", "no_session", <<>>)
    /\ sharedState.appiumDriver = NULL
    /\ \E s \in SessionIds : sessions[s].state = "closed"

\* C20: end called while the session is Active has sent the termination
\* request to the tracked subprocess and cleared its handle by the time it asks
\* the engine to close the session; and whenever the close settles, resolved
\* or rejected, the call returns with the driver handle, the platform and the
\* device absent.
C20_EndWhileActive ==
    [][/\ (es.pc = "idle" /\ es'.pc = "deleteSession")
          => LET driver == sharedState.appiumDriver
                 tracked == sharedState.deviceLogProcess
             IN  /\ driver # NULL
                 /\ sessions'[driver].deletes = sessions[driver].deletes + 1
                 /\ sharedState'.deviceLogProcess = NULL
                 /\ tracked # NULL => procs'[tracked].kills = procs[tracked].kills + 1
                 /\ sharedState'.appiumDriver = driver
       /\ (es.pc = "deleteSession" /\ es'.pc = "idle")
          => /\ result'.tool = "end_session"
             /\ result'.shape = "text"
             /\ sharedState'.appiumDriver = NULL
             /\ sharedState'.currentPlatform = NoPlatform
             /\ sharedState'.currentDevice = <<>>]_vars

\* end returned after the engine failed to close the session: the session is
\* Idle, and the subprocess it tracked was sent the termination request.
C20_Witness ==
    /\ result = Outcome("end_session", "ended_close_failed", <<>>)
    /\ sharedState.appiumDriver = NULL
    /\ sharedState.deviceLogProcess = NULL
    /\ \E p \in ProcIds : procs[p].kills > 0
    /\ \E s \in SessionIds : sessions[s].state = "open" /\ sessions[s].deletes = 1


C22_ExitClearsOnlyHandle ==
    [][\A p \in ProcIds :
          (/\ sharedState.deviceLogProcess = p
           /\ procs[p].state = "running"
           /\ procs'[p].state = "exited")
          => (/\ sharedState' = [sharedState EXCEPT !.deviceLogProcess = NULL]
              /\ UNCHANGED <<sessions, files, calls, es, gdl, tl, result, handlers,
                             exited>>)]_vars


\* C23: with a name filter, the device selected is the first one, in the order
\* iOS candidates then Android candidates and among those of the requested
\* platform when it is 'ios' or 'android', whose name contains the filter; a
\* filter several devices match selects the first of them.
C23_FirstMatchWins ==
    (applied.fn = "SelectDevice" /\ Returned /\ applied.deviceName # <<>>)
       => LET part == applied.deviceName
              all == applied.iosDevices \o applied.androidDevices
              InScope(d) == applied.platform = "auto" \/ d.platform = applied.platform
              Contains(name) ==
                  \E at \in 0..Len(name) :
                     /\ at + Len(part) <= Len(name)
                     /\ \A k \in 1..Len(part) : name[at + k] = part[k]
              Match(i) == InScope(all[i]) /\ Contains(all[i].name)
          IN  /\ (\E i \in 1..Len(all) : Match(i)) => applied.out.device # <<>>
              /\ applied.out.device # <<>>
                    => \E i \in 1..Len(all) :
                          /\ Match(i)
                          /\ \A j \in 1..(i - 1) : ~Match(j)
                          /\ applied.out.device = <<all[i]>>

\* The filter matches two booted simulators and an Android device: the first
\* simulator is selected.
C23_Witness ==
    /\ applied.fn = "SelectDevice"
    /\ Returned
    /\ applied.platform = "auto"
    /\ applied.deviceName = <<"2">>
    /\ Len(applied.iosDevices) = 2
    /\ Len(applied.androidDevices) = 2
    /\ applied.out.device # <<>>
    /\ applied.out.device[1].id = "U2"


\* C24: the capabilities hold a platform version only when the version of the
\* selected device was normalized: for a simulator whose runtime key
\* parseIOSVersion could not parse, they hold none.
C24_NoVersionWhenUnparsed ==
    (/\ applied.fn = "finalCapabilities" /\ Returned
     /\ parseIOSVersion(applied.raw.runtimeKey) = <<>>)
       => applied.out.platformVersion = <<>>


\* C25: every step of enter_text, simulate_gesture, get_device_logs and
\* press_home_button, on every path and also when the driver call fails,
\* leaves the driver handle, the platform, the device and the tracked
\* subprocess as they were, and neither closes a session nor signals a
\* subprocess.
C25_ToolsLeaveSessionState ==
    [][(\/ tl' # tl
        \/ gdl' # gdl
        \/ /\ result' # result
           /\ result'.tool \in {"enter_text", "simulate_gesture", "get_device_logs",
                                "press_home_button"})
       => UNCHANGED <<sharedState, sessions, procs>>]_vars

\* A driver call of enter_text failed in an Active session with a tracked
\* subprocess: both handles are still held.
C25_Witness ==
    /\ result = Outcome("enter_text", "enter_error", <<>>)
    /\ sharedState.appiumDriver # NULL
    /\ sharedState.deviceLogProcess # NULL
    /\ sharedState.currentDevice # <<>>


\* C26: in an Active session get_device_logs returns "capture not active or
\* nothing captured yet" exactly when no subprocess is tracked and the sink
\* file does not exist; when the sink exists, holds no content and is read, it
\* returns "nothing new"; and the logs it returns are never empty or blank.
C26_NeverStartedOrNothingYet ==
    (applied.fn = "get_device_logs" /\ Returned)
       => /\ applied.out.shape = "text"
          /\ (applied.out.kind = "capture_not_active")
                <=> (applied.deviceLogProcess = NULL /\ ~applied.sink.exists)
          /\ (applied.sink.exists /\ applied.sink.content = <<>> /\ ~applied.failed)
                => applied.out.kind = "nothing_new"
          /\ applied.out.kind = "logs"
                => \E i \in 1..Len(applied.out.logs) : applied.out.logs[i] # 0

\* Log capture never started: no subprocess, no sink file, and the call said so.
C26_Witness ==
    /\ applied.fn = "get_device_logs"
    /\ Returned
    /\ applied.deviceLogProcess = NULL
    /\ ~applied.sink.exists
    /\ applied.out.kind = "capture_not_active"


C28_OneConnectionAtATime ==
    [][\A c \in Calls :
          (calls[c].pc = "remote" /\ calls'[c].pc = "truncate")
          => sharedState.appiumDriver = NULL]_vars


\* C29: every log-capture subprocess that is still running and has not been
\* sent a termination request is the one sharedState.deviceLogProcess tracks;
\* hence there is at most one, and none is orphaned.
C29_RunningMeansTracked ==
    \A p \in ProcIds :
       (procs[p].state = "running" /\ procs[p].kills = 0)
          => sharedState.deviceLogProcess = p


\* C30: when the process has exited through a signal listener, every session
\* the program opened and that is still open was asked to close, and every
\* subprocess still running was sent a termination request.
C30_NothingLeftAtExit ==
    exited =>
       /\ \A s \in SessionIds : sessions[s].state = "open" => sessions[s].deletes > 0
       /\ \A p \in ProcIds : procs[p].state = "running" => procs[p].kills > 0


\* C31: get_device_logs modifies the sink only in the step that returns log
\* content: every other step of the handler, and every other outcome (session
\* not active, capture not active, nothing new, file not found, read error),
\* leaves the sink file as it was.
C31_SinkChangedOnlyWithLogs ==
    [][LET returns == result' # result /\ result'.tool = "get_device_logs"
       IN  ((gdl' # gdl \/ returns) /\ ~(returns /\ result'.kind = "logs"))
              => UNCHANGED files]_vars

\* get_device_logs returned "nothing new" on a sink holding only white space:
\* the white space is still there.
C31_Witness ==
    /\ result = Outcome("get_device_logs", "nothing_new", <<>>)
    /\ files[deviceLogFilePath].exists
    /\ files[deviceLogFilePath].content = <<0>>

====
